---------------------------- MODULE Spec2Model ----------------------------
(***************************************************************************)
(* A state-machine model of src/janus_clustering.py: the construction of   *)
(* JanusClustering, frame extraction, ingestion of the vector store's      *)
(* neighbour results in batches, the dense distance matrix, the call of    *)
(* the clustering engine, and the per-cluster segments written by main().  *)
(*                                                                         *)
(* Python lists are sequences; Python positions are 0-based, so At(s, i)   *)
(* reads s[i].  A dict is a record of its keys in insertion order and its  *)
(* values.  Timestamps are counted in units of 1/fps seconds, so that      *)
(* frame_count / fps is the integer frame_count.  Exceptions end the run   *)
(* in pc = "error" with the exception's name in error.                     *)
(***************************************************************************)
EXTENDS Integers, Sequences, FiniteSets, TLC

\* ---------------------------------------------------------------- bounds
MaxN == 3          \* frames read from the video
NumIds == 2        \* distinct primary keys the store can hand out
MaxK == 2          \* hits per search (limit=50 in the source)
BatchSize == 2     \* rows per iterator batch (batch_size=10 in the source)
MaxLabel == 1      \* largest cluster label the engine returns

\* ------------------------------------------------------ program constants
Noise == -1            \* the label compared against in main()
Inf == 1000            \* np.inf, larger than every distance of the model
FrameInterval == 1     \* extract_frames(frame_interval=1)
Dim1B == 2048
Dim7B == 4096

Ids == 1..NumIds
Labels == Noise..MaxLabel

Range(s) == {s[i] : i \in DOMAIN s}
At(s, i) == s[i + 1]
Min(a, b) == IF a < b THEN a ELSE b

VARIABLES
    pc, error,
    model_path, embedder_loaded, connected, collection_exists, dropped,
    collection,
    timestamps,
    population, pending, nbrs, nbatches, seen_twice,
    ids, dist, ids2index, dist_matrix,
    labels, reported,
    cluster_groups, group_pos, segments

vars == << pc, error, model_path, embedder_loaded, connected,
           collection_exists, dropped, collection, timestamps,
           population, pending, nbrs, nbatches, seen_twice,
           ids, dist, ids2index, dist_matrix, labels, reported,
           cluster_groups, group_pos, segments >>

initVars == << model_path, embedder_loaded, connected, collection_exists,
               dropped, collection >>
storeVars == << population, pending, nbrs, nbatches, seen_twice >>
clusterVars == << ids, dist, ids2index, dist_matrix >>
segmentVars == << cluster_groups, group_pos, segments >>

\* A model path is known by which of the two model names it contains.
ModelPaths == {[has1B |-> TRUE, has7B |-> FALSE],
               [has1B |-> FALSE, has7B |-> TRUE],
               [has1B |-> FALSE, has7B |-> FALSE]}

EmptyDict == [keys |-> << >>, val |-> << >>]
NoCollection == [name |-> "none", dim |-> 0]

Init ==
    /\ pc = "init_embedder"
    /\ error = "none"
    /\ model_path \in ModelPaths
    /\ embedder_loaded = FALSE
    /\ connected = FALSE
    /\ collection_exists \in BOOLEAN
    /\ dropped = FALSE
    /\ collection = NoCollection
    /\ timestamps = << >>
    /\ population = << >>
    /\ pending = << >>
    /\ nbrs = << >>
    /\ nbatches = 0
    /\ seen_twice = FALSE
    /\ ids = << >>
    /\ dist = EmptyDict
    /\ ids2index = << >>
    /\ dist_matrix = << >>
    /\ labels = << >>
    /\ reported = << >>
    /\ cluster_groups = << >>
    /\ group_pos = 0
    /\ segments = << >>

Raise(name) ==
    /\ pc' = "error"
    /\ error' = name


\* --------------------------------------------------- JanusClustering.__init__
\* self.embedder = JanusEmbedder(model_path): the external loader returns or raises.
LoadEmbedder ==
    /\ pc = "init_embedder"
    /\ \/ /\ embedder_loaded' = TRUE
          /\ pc' = "init_connect"
          /\ error' = error
       \/ /\ embedder_loaded' = embedder_loaded
          /\ Raise("EmbedderError")
    /\ UNCHANGED << model_path, connected, collection_exists, dropped, collection,
                    timestamps, storeVars, clusterVars, labels, reported, segmentVars >>

\* connections.connect(...): the external connection opens or raises.
Connect ==
    /\ pc = "init_connect"
    /\ \/ /\ connected' = TRUE
          /\ pc' = "init_dim"
          /\ error' = error
       \/ /\ connected' = connected
          /\ Raise("ConnectionError")
    /\ UNCHANGED << model_path, embedder_loaded, collection_exists, dropped, collection,
                    timestamps, storeVars, clusterVars, labels, reported, segmentVars >>

KnownModel(path) == path.has1B \/ path.has7B

\* if "Janus-Pro-1B" in model_path ... elif "Janus-Pro-7B" in model_path ... else raise
DimOf(path) == IF path.has1B THEN Dim1B ELSE Dim7B

DetermineDim ==
    /\ pc = "init_dim"
    /\ IF KnownModel(model_path)
          THEN pc' = "init_clean" /\ error' = error
          ELSE Raise("ValueError")
    /\ UNCHANGED << initVars, timestamps, storeVars, clusterVars, labels, reported,
                    segmentVars >>

\* clean_database(): Collection("janus_data").drop(); binding a name that has no
\* collection and giving no schema raises.
CleanDatabase ==
    /\ pc = "init_clean"
    /\ IF collection_exists
          THEN /\ collection_exists' = FALSE
               /\ dropped' = TRUE
               /\ pc' = "init_create"
               /\ error' = error
          ELSE /\ UNCHANGED << collection_exists, dropped >>
               /\ Raise("SchemaNotReady")
    /\ UNCHANGED << model_path, embedder_loaded, connected, collection,
                    timestamps, storeVars, clusterVars, labels, reported, segmentVars >>

\* self.collection = Collection(name="janus_data", schema=schema)
CreateCollection ==
    /\ pc = "init_create"
    /\ collection' = [name |-> "janus_data", dim |-> DimOf(model_path)]
    /\ collection_exists' = TRUE
    /\ pc' = "extract"
    /\ UNCHANGED << error, model_path, embedder_loaded, connected, dropped,
                    timestamps, storeVars, clusterVars, labels, reported, segmentVars >>

\* ------------------------------------------------------------ extract_frames
\* timestamp = frame_count / fps, in units of 1/fps seconds.
TimestampOf(frame_count) == frame_count

RECURSIVE ExtractTimestamps(_, _)
\* The while loop of extract_frames over frame_count = from .. total-1.
ExtractTimestamps(from, total) ==
    IF from >= total THEN << >>
    ELSE IF from % FrameInterval = 0
         THEN << TimestampOf(from) >> \o ExtractTimestamps(from + 1, total)
         ELSE ExtractTimestamps(from + 1, total)

ExtractFrames ==
    /\ pc = "extract"
    /\ \E total \in 0..MaxN : timestamps' = ExtractTimestamps(0, total)
    /\ pc' = "encode"
    /\ UNCHANGED << error, initVars, storeVars, clusterVars, labels, reported,
                    segmentVars >>

\* encode_and_store: one insert per frame.  The rows the store will hand to the
\* iterator are one per inserted frame; the store is an external service, so
\* the primary key of each row is any key it can hand out.
EncodeAndStore ==
    /\ pc = "encode"
    /\ population' \in [1..Len(timestamps) -> Ids]
    /\ pc' = "query"
    /\ UNCHANGED << error, initVars, timestamps, pending, nbrs, nbatches, seen_twice,
                    clusterVars, labels, reported, segmentVars >>

\* ------------------------------------------------- JanusClustering.cluster
\* The store's embedding of the row with key id is the point id on a line, and
\* the L2 metric of the search is the squared difference.
Distance(a, b) == (a - b) * (a - b)

\* What one search can return for the vector of row src: at most MaxK hits,
\* distinct rows, in ascending distance; an approximate search may miss any row.
HitListsOf(src) ==
    LET seqs == UNION {[1..k -> Ids] : k \in 0..Min(MaxK, NumIds)}
        ok(t) == /\ \A i, j \in DOMAIN t : i < j =>
                        /\ t[i] # t[j]
                        /\ Distance(src, t[i]) <= Distance(src, t[j])
    IN {[i \in DOMAIN t |-> << t[i], Distance(src, t[i]) >>] :
            t \in {u \in seqs : ok(u)}}

HitLists == [src \in Ids |-> HitListsOf(src)]

\* iterator = self.collection.query_iterator(...); ids = []; dist = {}
QueryIterator ==
    /\ pc = "query"
    /\ pending' = population
    /\ ids' = << >>
    /\ dist' = EmptyDict
    /\ pc' = "ingest"
    /\ UNCHANGED << error, initVars, timestamps, population, nbrs, nbatches,
                    seen_twice, ids2index, dist_matrix, labels, reported, segmentVars >>

ExtendMut(list, more) == more

\* list.extend(more)
Extend(list, more) == list \o more

\* dist[key] = value: a new key goes last, an old key keeps its place.
DictSet(d, key, value) ==
    [keys |-> IF key \in Range(d.keys) THEN d.keys ELSE Append(d.keys, key),
     val |-> (key :> value) @@ d.val]

RECURSIVE StoreResults(_, _, _, _)
\* for i, batch_id in enumerate(batch_ids): dist[batch_id] = list of results[i]
StoreResults(d, batch_ids, results, i) ==
    IF i > Len(batch_ids) THEN d
    ELSE StoreResults(DictSet(d, batch_ids[i], results[i]), batch_ids, results, i + 1)

\* One turn of the while loop with a non-empty batch.
NextBatch ==
    /\ pc = "ingest"
    /\ pending # << >>
    /\ \E k \in 1..Min(BatchSize, Len(pending)) :
         LET batch_ids == SubSeq(pending, 1, k)
             fresh == Range(batch_ids) \ DOMAIN nbrs
         IN \E answer \in [fresh -> UNION {HitLists[src] : src \in fresh}] :
              /\ \A src \in fresh : answer[src] \in HitLists[src]
              /\ nbrs' = answer @@ nbrs
              /\ LET results == [i \in 1..k |-> nbrs'[batch_ids[i]]]
                 IN dist' = StoreResults(dist, batch_ids, results, 1)
              /\ ids' = Extend(ids, batch_ids)
              /\ seen_twice' = (seen_twice \/ Range(batch_ids) \cap Range(ids) # {})
              /\ pending' = SubSeq(pending, k + 1, Len(pending))
    /\ nbatches' = nbatches + 1
    /\ pc' = "ingest"
    /\ UNCHANGED << error, initVars, timestamps, population, ids2index, dist_matrix,
                    labels, reported, segmentVars >>

\* batch = iterator.next(); if len(batch) == 0: break
EndOfBatches ==
    /\ pc = "ingest"
    /\ pending = << >>
    /\ pc' = "build"
    /\ UNCHANGED << error, initVars, timestamps, storeVars, clusterVars, labels,
                    reported, segmentVars >>

\* ids2index = {id: idx for idx, id in enumerate(ids)}: a later position of a
\* repeated id replaces the earlier one.
Ids2Index(list) ==
    [id \in Range(list) |->
        CHOOSE idx \in 0..(Len(list) - 1) :
            /\ At(list, idx) = id
            /\ \A later \in (idx + 1)..(Len(list) - 1) : At(list, later) # id]

\* np.full((len(ids), len(ids)), np.inf)
FullInf(n) == [i \in 0..(n - 1) |-> [j \in 0..(n - 1) |-> Inf]]

RECURSIVE EdgesOf(_, _)
\* for id in dist: for result in dist[id]: the (id, result) pairs in loop order
EdgesOf(d, k) ==
    IF k > Len(d.keys) THEN << >>
    ELSE LET id == d.keys[k]
             hits == d.val[id]
         IN [i \in DOMAIN hits |-> [src |-> id, dst |-> hits[i][1], d |-> hits[i][2]]]
            \o EdgesOf(d, k + 1)

FillEdgeMut(m, row, col, d) == [m EXCEPT ![row][col] = d, ![col][row] = d]

\* dist_matrix[row][col] = d
FillEdge(m, row, col, d) == [m EXCEPT ![row][col] = d]

RECURSIVE FillAll(_, _, _)

OnMissingKeyMut(m, rest, index) == FillAll(m, rest, index)

\* ids2index[...] of a key the dict does not hold raises KeyError: the loop ends.
OnMissingKey(m, rest, index) == [ok |-> FALSE, m |-> m]

\* The two nested loops that write the edges into the matrix.
FillAll(m, edges, index) ==
    IF edges = << >> THEN [ok |-> TRUE, m |-> m]
    ELSE LET e == Head(edges)
         IN IF e.src \notin DOMAIN index \/ e.dst \notin DOMAIN index
               THEN OnMissingKey(m, Tail(edges), index)
               ELSE FillAll(FillEdge(m, index[e.src], index[e.dst], e.d),
                            Tail(edges), index)

\* "Create distance matrix": the index, the full matrix and the fill.
BuildMatrix ==
    /\ pc = "build"
    /\ LET index == Ids2Index(ids)
           filled == FillAll(FullInf(Len(ids)), EdgesOf(dist, 1), index)
       IN /\ ids2index' = index
          /\ IF filled.ok
                THEN /\ dist_matrix' = filled.m
                     /\ pc' = "fit"
                     /\ error' = error
                ELSE /\ dist_matrix' = dist_matrix
                     /\ Raise("KeyError")
    /\ UNCHANGED << initVars, timestamps, storeVars, ids, dist, labels, reported,
                    segmentVars >>

\* len(set(labels)) - 1
ClusterCount(lbls) == Cardinality(Range(lbls)) - 1

\* labels = clusterer.fit_predict(dist_matrix); the print; return.  The engine is
\* external: it returns one label per row of the matrix, and its input
\* validation rejects a matrix of no rows (FitRaises).  The locals of cluster()
\* and the iterator end with the call.
FitPredict ==
    /\ pc = "fit"
    /\ Len(ids) >= 1
    /\ labels' \in [1..Len(ids) -> Labels]
    /\ reported' = << ClusterCount(labels') >>
    /\ ids' = << >>
    /\ dist' = EmptyDict
    /\ ids2index' = << >>
    /\ dist_matrix' = << >>
    /\ population' = << >>
    /\ nbrs' = << >>
    /\ nbatches' = 0
    /\ seen_twice' = FALSE
    /\ pc' = "visualize"
    /\ UNCHANGED << error, initVars, timestamps, pending, segmentVars >>

\* The engine raises on an input it rejects; the exception is not caught.
FitRaises ==
    /\ pc = "fit"
    /\ Raise("ClusteringError")
    /\ UNCHANGED << initVars, timestamps, storeVars, clusterVars, labels, reported,
                    segmentVars >>

\* clusterer.visualize(labels, embeddings): plots, changes nothing the run reads.
Visualize ==
    /\ pc = "visualize"
    /\ pc' = "group"
    /\ UNCHANGED << error, initVars, timestamps, storeVars, clusterVars, labels,
                    reported, segmentVars >>

\* ------------------------------------------------------------------- main
\* cluster_groups is a dict from label to the list of its frame positions; it is
\* the sequence of its items in insertion order.
HasLabel(groups, label) == \E g \in DOMAIN groups : groups[g].label = label

AddFrameMut(groups, label, i) ==
    IF HasLabel(groups, label)
       THEN [g \in DOMAIN groups |->
                IF groups[g].label = label
                   THEN [groups[g] EXCEPT !.frame_indices = Append(@, i)]
                   ELSE groups[g]]
       ELSE << [label |-> label, frame_indices |-> << i >>] >> \o groups

\* if label not in cluster_groups: cluster_groups[label] = []
\* cluster_groups[label].append(i)
AddFrame(groups, label, i) ==
    IF HasLabel(groups, label)
       THEN [g \in DOMAIN groups |->
                IF groups[g].label = label
                   THEN [groups[g] EXCEPT !.frame_indices = Append(@, i)]
                   ELSE groups[g]]
       ELSE Append(groups, [label |-> label, frame_indices |-> << i >>])

RECURSIVE GroupFrom(_, _, _)
\* for i, label in enumerate(labels), from position i on
GroupFrom(groups, lbls, i) ==
    IF i >= Len(lbls) THEN groups
    ELSE GroupFrom(AddFrame(groups, At(lbls, i), i), lbls, i + 1)

\* "Group frames by cluster"
GroupFrames ==
    /\ pc = "group"
    /\ cluster_groups' = GroupFrom(<< >>, labels, 0)
    /\ group_pos' = 0
    /\ pc' = "segments"
    /\ UNCHANGED << error, initVars, timestamps, storeVars, clusterVars, labels,
                    reported, segments >>

IsNoiseMut(label) == FALSE

\* if label == -1
IsNoise(label) == label = Noise

\* One turn of "for label, frame_indices in cluster_groups.items()" on a noise
\* group: continue.
SkipNoise ==
    /\ pc = "segments"
    /\ group_pos < Len(cluster_groups)
    /\ IsNoise(At(cluster_groups, group_pos).label)
    /\ group_pos' = group_pos + 1
    /\ UNCHANGED << pc, error, initVars, timestamps, storeVars, clusterVars, labels,
                    reported, cluster_groups, segments >>

\* One turn of the loop on a cluster: its start and end time and the frames
\* written, in the order of frame_indices, to one output file.
WriteSegment ==
    /\ pc = "segments"
    /\ group_pos < Len(cluster_groups)
    /\ LET group == At(cluster_groups, group_pos)
           first == group.frame_indices[1]
           last == group.frame_indices[Len(group.frame_indices)]
       IN /\ ~IsNoise(group.label)
          /\ segments' = Append(segments,
                [label |-> group.label,
                 start_time |-> At(timestamps, first),
                 end_time |-> At(timestamps, last),
                 frame_indices |-> group.frame_indices])
    /\ group_pos' = group_pos + 1
    /\ UNCHANGED << pc, error, initVars, timestamps, storeVars, clusterVars, labels,
                    reported, cluster_groups >>

\* The loop over the groups is over: cap.release()
SegmentsDone ==
    /\ pc = "segments"
    /\ group_pos = Len(cluster_groups)
    /\ pc' = "done"
    /\ UNCHANGED << error, initVars, timestamps, storeVars, clusterVars, labels,
                    reported, segmentVars >>

Next ==
    \/ LoadEmbedder
    \/ Connect
    \/ DetermineDim
    \/ CleanDatabase
    \/ CreateCollection
    \/ ExtractFrames
    \/ EncodeAndStore
    \/ QueryIterator
    \/ NextBatch
    \/ EndOfBatches
    \/ BuildMatrix
    \/ FitPredict
    \/ FitRaises
    \/ Visualize
    \/ GroupFrames
    \/ SkipNoise
    \/ WriteSegment
    \/ SegmentsDone

Spec == Init /\ [][Next]_vars

\* ================================================================= claims
Positions(seq) == 0..(Len(seq) - 1)
Distinct(seq) == \A i, j \in DOMAIN seq : i # j => seq[i] # seq[j]
FramesOf(s) == Range(segments[s].frame_indices)

\* C1: when the run is over, every emitted segment is one run of consecutive
\* positions: a label met again after a noise position or after another label
\* starts a new segment and is never merged into the earlier one.
C1_RunsAreSplit ==
    pc = "done" =>
        \A s \in DOMAIN segments :
            LET fi == segments[s].frame_indices
            IN \A k \in 1..(Len(fi) - 1) : fi[k + 1] = fi[k] + 1

\* C2: when the run is over, every position whose label is not noise lies in
\* exactly one segment, no segment holds a position twice, and every position
\* of every segment is a non-noise position of the label array.
C2_PartitionLaw ==
    pc = "done" =>
        /\ \A p \in Positions(labels) :
              At(labels, p) # Noise =>
                  Cardinality({s \in DOMAIN segments : p \in FramesOf(s)}) = 1
        /\ \A s \in DOMAIN segments :
              /\ Distinct(segments[s].frame_indices)
              /\ \A p \in FramesOf(s) :
                    p \in Positions(labels) /\ At(labels, p) # Noise

C2_Witness ==
    /\ pc = "done"
    /\ Noise \in Range(labels)
    /\ Len(segments) >= 2

\* The distance the store answered for the edge from row a to row b, or the
\* sentinel when its answer for a names no hit b.
Observed(a, b) ==
    LET hits == nbrs[a]
    IN IF \E h \in DOMAIN hits : hits[h][1] = b
          THEN LET h == CHOOSE h \in DOMAIN hits : hits[h][1] = b IN hits[h][2]
          ELSE Inf

\* C3: once the matrix is built from distinct ids (each answer names a row at
\* most once), it has one row and one column per id, and every entry is the
\* observed distance of that ordered pair, or the sentinel when no such edge
\* was observed: nothing is symmetrized and the diagonal is not forced.
C3_MatrixExact ==
    (pc = "fit" /\ Distinct(ids)) =>
        /\ DOMAIN dist_matrix = Positions(ids)
        /\ \A i, j \in Positions(ids) :
              /\ DOMAIN dist_matrix[i] = Positions(ids)
              /\ dist_matrix[i][j] = Observed(At(ids, i), At(ids, j))

C3_Witness ==
    /\ pc = "fit"
    /\ Distinct(ids)
    /\ \E i, j \in Positions(ids) :
          /\ i # j
          /\ dist_matrix[i][j] # Inf
          /\ dist_matrix[j][i] = Inf
          /\ dist_matrix[i][i] = Inf

\* C4: once the matrix is built, ids2index gives every ingested id a position
\* and the positions given are exactly 0..N-1, N the dimension of the matrix.
C4_IndexComplete ==
    pc = "fit" =>
        /\ DOMAIN ids2index = Range(ids)
        /\ {ids2index[id] : id \in DOMAIN ids2index} = DOMAIN dist_matrix

\* C5: a run in which some id came in more than one batch never gets past the
\* ingestion and the matrix build: it ends in an error.
C5_DuplicatesRejected ==
    seen_twice => pc \in {"ingest", "build", "error"}

\* Some observed edge of an ingested id names a target that was not ingested.
UnknownTarget ==
    \E id \in Range(ids) \cap DOMAIN nbrs :
        \E h \in DOMAIN nbrs[id] : nbrs[id][h][1] \notin Range(ids)

\* C6: after the ingestion and the matrix build, an observed edge to a target
\* outside the ingested ids means the run has ended in KeyError, with no
\* matrix built, no label array returned and no cluster count reported.
C6_UnknownTargetAborts ==
    (UnknownTarget /\ pc \notin {"ingest", "build"}) =>
        /\ pc = "error"
        /\ error = "KeyError"
        /\ dist_matrix = << >>
        /\ labels = << >>
        /\ reported = << >>

C6_Witness ==
    /\ pc = "error"
    /\ error = "KeyError"
    /\ UnknownTarget
    /\ Len(ids) >= 2

\* C7: the cluster count reported is the number of distinct labels of the
\* label array other than the noise label.
C7_CountIsDistinctNonNoise ==
    reported # << >> =>
        reported[1] = Cardinality(Range(labels) \ {Noise})

RECURSIVE FirstOccurrences(_)
FirstOccurrences(seq) ==
    IF seq = << >> THEN << >>
    ELSE LET front == SubSeq(seq, 1, Len(seq) - 1)
             rest == FirstOccurrences(front)
         IN IF seq[Len(seq)] \in Range(front) THEN rest
            ELSE Append(rest, seq[Len(seq)])

\* C8: however the rows are cut into batches, at every batch boundary the ids
\* taken so far followed by the rows still to come are the population; when
\* the ingestion is over the id list is the population and dist maps every id
\* of it, in order of first appearance, to the store's answer for that id; and
\* the matrix is the one built from the population and those answers alone.
C8_BatchIndependent ==
    /\ pc = "ingest" => ids \o pending = population
    /\ pc \in {"build", "fit"} =>
          /\ ids = population
          /\ dist.keys = FirstOccurrences(population)
          /\ DOMAIN dist.val = Range(population)
          /\ \A id \in Range(population) : dist.val[id] = nbrs[id]
    /\ pc = "fit" =>
          dist_matrix =
              FillAll(FullInf(Len(population)),
                      EdgesOf([keys |-> FirstOccurrences(population),
                               val |-> [id \in Range(population) |-> nbrs[id]]], 1),
                      Ids2Index(population)).m

C8_Witness ==
    /\ pc = "fit"
    /\ nbatches >= 2
    /\ Len(ids) >= 3
    /\ Cardinality(Range(ids)) >= 2
    /\ \E id \in Range(ids) : Len(nbrs[id]) >= 2

\* C9: every segment emitted so far starts at the timestamp of its first member
\* and ends at the timestamp of its last, and the start timestamps do not
\* decrease along the sequence of emitted segments.
C9_AscendingStart ==
    /\ \A s \in DOMAIN segments :
          LET fi == segments[s].frame_indices
          IN /\ segments[s].start_time = At(timestamps, fi[1])
             /\ segments[s].end_time = At(timestamps, fi[Len(fi)])
    /\ \A s, t \in DOMAIN segments :
          s < t => segments[s].start_time <= segments[t].start_time

C9_Witness ==
    /\ pc = "done"
    /\ Len(segments) >= 2
    /\ segments[1].label > segments[2].label
    /\ segments[1].end_time > segments[2].start_time

\* C10: a run that ended in the unknown-model error did nothing before it: no
\* embedder loaded, no connection opened, no collection dropped or created.
C10_FailsBeforeAnyStep ==
    error = "ValueError" =>
        /\ ~embedder_loaded
        /\ ~connected
        /\ ~dropped
        /\ collection = NoCollection

=============================================================================
